---- MODULE Spec2Model ----
(***************************************************************************)
(* Model of steamdb.py: the catalog lister (get_steam_games), the detail   *)
(* lookup (get_game_details), the price extraction and comparison          *)
(* (get_price_info, get_idr_equivalent, calculate_price_difference,        *)
(* compare_prices) and the orchestrator (main) with its pool of 2 workers. *)
(*                                                                         *)
(* Amounts are Python floats in the source.  They are modelled as exact    *)
(* rationals [num, den] in lowest terms, so that /100, *380 and the        *)
(* percentage are computed and not assumed; rounding is not modelled.      *)
(***************************************************************************)
EXTENDS Integers, Sequences, FiniteSets, TLC

\* ---------------------------------------------------------------- bounds
\* largest number of pages main is started with
MaxPages == 2
\* largest number of items in one search page
MaxItems == 2
\* amounts 0..MaxMinor (minor units) are compared exhaustively
MaxMinor == 6
\* pages asked for in the runs checked for termination
LivePages == 1

\* ------------------------------------------------------ program constants
UAH_TO_IDR == 380
PAGE_RETRIES == 3
DETAIL_RETRIES == 5
MAX_WORKERS == 2
\* items requested per page
PAGE_SIZE == 50
\* seconds slept between two pages
PAGE_DELAY == 3
\* seconds slept by get_game_details after a successful response
SUCCESS_DELAY == 3
\* seconds slept by compare_prices between the two regions
REGION_DELAY == 3
\* largest backoff, in seconds
BACKOFF_CAP == 16

\* Python's None
None == [none |-> TRUE]

\* ------------------------------------------------------- float arithmetic
RECURSIVE GCD(_, _)
GCD(a, b) == IF b = 0 THEN a ELSE GCD(b, a % b)

IntAbs(n) == IF n < 0 THEN -n ELSE n

\* a rational in lowest terms with a positive denominator
Rat(n, d) ==
    LET g == GCD(IntAbs(n), IntAbs(d))
        s == IF d < 0 THEN -1 ELSE 1
    IN  [num |-> (s * n) \div g, den |-> (s * d) \div g]

RatInt(n) == [num |-> n, den |-> 1]
RatIsZero(x) == x.num = 0
RatSub(x, y) == Rat(x.num * y.den - y.num * x.den, x.den * y.den)
RatMul(x, y) == Rat(x.num * y.num, x.den * y.den)
RatAbs(x) == [num |-> IntAbs(x.num), den |-> x.den]
RatLe(x, y) == x.num * y.den <= y.num * x.den
RatMax(x, y) == IF RatLe(y, x) THEN x ELSE y
RatMin(x, y) == IF RatLe(x, y) THEN x ELSE y

\* raised by a float division by zero
ZeroDivisionError == [raised |-> "ZeroDivisionError"]

\* x / y, or the exception Python raises when y is zero
RatDiv(x, y) ==
    IF RatIsZero(y) THEN ZeroDivisionError
    ELSE Rat(x.num * y.den, x.den * y.num)

\* ------------------------------------------------------------ comparator
\* get_price_info without the division by 100
get_price_info_minor(game_data) ==
    IF game_data.price_overview = None THEN None
    ELSE [final |-> RatInt(game_data.price_overview.final)]

\* get_price_info defaulting a missing price_overview to a zero quote
get_price_info_default(game_data) ==
    IF game_data.price_overview = None THEN [final |-> RatInt(0)]
    ELSE [final |-> Rat(game_data.price_overview.final, 100)]

\* get_price_info: the quote of a detail payload, None when it has no price
get_price_info(game_data) ==
    IF game_data.price_overview = None THEN None
    ELSE [final |-> Rat(game_data.price_overview.final, 100)]

\* calculate_price_difference guarding only the case of two zero amounts
calculate_both_zero(id_price, ua_price) ==
    IF RatIsZero(id_price) /\ RatIsZero(ua_price) THEN [difference |-> RatInt(0), percentage |-> RatInt(0)]
    ELSE LET difference == RatAbs(RatSub(id_price, ua_price))
             quotient == RatDiv(difference, RatMax(id_price, ua_price))
         IN  IF quotient = ZeroDivisionError THEN ZeroDivisionError
             ELSE [difference |-> difference,
                   percentage |-> RatMul(quotient, RatInt(100))]

\* calculate_price_difference dividing by the smaller amount
calculate_over_min(id_price, ua_price) ==
    IF RatIsZero(id_price) \/ RatIsZero(ua_price) THEN [difference |-> RatInt(0), percentage |-> RatInt(0)]
    ELSE LET difference == RatAbs(RatSub(id_price, ua_price))
             quotient == RatDiv(difference, RatMin(id_price, ua_price))
         IN  IF quotient = ZeroDivisionError THEN ZeroDivisionError
             ELSE [difference |-> difference,
                   percentage |-> RatMul(quotient, RatInt(100))]

\* calculate_price_difference dividing by its first argument
calculate_over_first(id_price, ua_price) ==
    IF RatIsZero(id_price) \/ RatIsZero(ua_price) THEN [difference |-> RatInt(0), percentage |-> RatInt(0)]
    ELSE LET difference == RatAbs(RatSub(id_price, ua_price))
             quotient == RatDiv(difference, id_price)
         IN  IF quotient = ZeroDivisionError THEN ZeroDivisionError
             ELSE [difference |-> difference,
                   percentage |-> RatMul(quotient, RatInt(100))]

\* calculate_price_difference: the pair (difference, percentage)
calculate_price_difference(id_price, ua_price) ==
    IF RatIsZero(id_price) \/ RatIsZero(ua_price) THEN [difference |-> RatInt(0), percentage |-> RatInt(0)]
    ELSE LET difference == RatAbs(RatSub(id_price, ua_price))
             quotient == RatDiv(difference, RatMax(id_price, ua_price))
         IN  IF quotient = ZeroDivisionError THEN ZeroDivisionError
             ELSE [difference |-> difference,
                   percentage |-> RatMul(quotient, RatInt(100))]

\* get_idr_equivalent: a UAH amount in IDR
get_idr_equivalent(uah_price) == RatMul(uah_price, RatInt(UAH_TO_IDR))

\* the part of compare_prices after the two lookups (both payloads present):
\* the record of the entry, None when a quote is missing or an exception
\* was caught
price_comparison(ua_details, id_details) ==
    LET ua_price == get_price_info(ua_details)
        id_price == get_price_info(id_details)
    IN  IF ua_price = None THEN None
        ELSE IF id_price = None THEN None
        ELSE LET ua_price_idr == get_idr_equivalent(ua_price.final)
                 diff == calculate_price_difference(id_price.final, ua_price_idr)
             IN  IF diff = ZeroDivisionError THEN None
                 ELSE [name |-> ua_details.name,
                       ua_price |-> ua_price,
                       id_price |-> id_price,
                       ua_price_idr |-> ua_price_idr,
                       difference |-> diff.difference,
                       difference_percent |-> diff.percentage]

\* ----------------------------------------------------------- input domains
\* identifiers the search pages can carry in their logo URLs
AppIds == {"10", "20"}
\* display names of the search items
Names == {"x", "y"}
\* a search item: logo is the identifier found by the /apps/([0-9]+)/
\* pattern, "" when the pattern does not match and "null" for a logo that
\* is not a string; name "" is a missing name.  Identifier 10 is listed
\* under two names, identifier 20 under one.
Items ==
    {it \in [name : Names, logo : AppIds] : it.logo = "10" \/ it.name = "x"}
    \cup {[name |-> "", logo |-> "10"], [name |-> "x", logo |-> ""],
          [name |-> "x", logo |-> "null"]}
\* minor-unit amounts of the detail payloads, per region
UaFinals == {0, 1000}
IdFinals == {0, 300000}

SeqsUpTo(S, n) == UNION {[1..k -> S] : k \in 0..n}

\* the data of a successful detail response
Payloads(app_id, finals) ==
    [name : {app_id},
     price_overview : {None} \cup [final : finals]]

RegionFinals(region) == IF region = "ua" THEN UaFinals ELSE IdFinals

\* ------------------------------------------------------------------ state
VARIABLES
    pc,                 \* where main is
    pages,              \* main's argument
    page,               \* get_steam_games: the page being fetched
    attempt,            \* get_steam_games: the attempt of that page
    only429,            \* every earlier response for that page was a 429
    response,           \* get_steam_games: the last response
    games,              \* the entries collected (main: the unique entries)
    tasks,              \* the futures of main, in submission order
    completed,          \* main: number of futures collected
    price_comparisons,  \* main: the records collected
    finished,           \* task indices in order of completion
    calc_ua,            \* comparator inputs (minor units)
    calc_id,
    calc_out            \* comparator output

vars == <<pc, pages, page, attempt, only429, response, games, tasks,
          completed, price_comparisons, finished, calc_ua, calc_id, calc_out>>

listerVars == <<page, attempt, only429, response>>
poolVars == <<tasks, completed, price_comparisons, finished>>
calcVars == <<calc_ua, calc_id, calc_out>>

\* a sleep: what it is for and how many seconds it lasts
Sleep(why, seconds) == [for |-> why, seconds |-> seconds]

\* A response is kept with the request it answers (the parameters that
\* matter) and with the sleeps made after it, up to the next request of the
\* same thread.
\* no request made yet: by get_game_details, by get_steam_games
NoResponse == [status |-> "none", body |-> None, cc |-> "", after |-> <<>>]
NoPage ==
    [status |-> "none", body |-> <<>>, start |-> 0, count |-> 0,
     after |-> <<>>]

\* the backoff grows by 2 seconds per attempt
backoff_sleeps_linear(a) ==
    IF a > 0 THEN <<Sleep("backoff", 2 * a)>> ELSE <<>>

\* the sleeps at the head of attempt a of a page or of a lookup
backoff_sleeps(a) ==
    IF a > 0
    THEN <<Sleep("backoff", IF 2 ^ a < BACKOFF_CAP THEN 2 ^ a ELSE BACKOFF_CAP)>>
    ELSE <<>>

\* main as a stage of the pipeline
Phase ==
    CASE pc = "Idle" -> "Idle"
      [] pc \in {"Listing", "Returned"} -> "Listing"
      [] pc = "Comparing" -> "Comparing"
      [] pc = "Aggregating" -> "Aggregating"
      [] pc = "Done" -> "Done"
      [] OTHER -> "Crashed"

Init ==
    /\ pc = "Idle"
    /\ pages \in 0..MaxPages
    /\ page = 0
    /\ attempt = 0
    /\ only429 = TRUE
    /\ response = NoPage
    /\ games = <<>>
    /\ tasks = <<>>
    /\ completed = 0
    /\ price_comparisons = <<>>
    /\ finished = <<>>
    /\ calc_ua = 0
    /\ calc_id = 0
    /\ calc_out = None

\* ------------------------------------------------------- get_steam_games
\* the entries one page appends, item by item, until an item raises
RECURSIVE process_items(_)
process_items(items) ==
    IF items = <<>> THEN [entries |-> <<>>, raised |-> FALSE]
    ELSE LET item == Head(items)
         IN  IF item.logo = "null" THEN [entries |-> <<>>, raised |-> TRUE]
             ELSE LET rest == process_items(Tail(items))
                      here == IF item.logo # "" /\ item.name # ""
                              THEN <<[appid |-> item.logo, name |-> item.name]>>
                              ELSE <<>>
                  IN  [entries |-> here \o rest.entries, raised |-> rest.raised]

\* the last attempt of a page gives up one attempt early
page_last_attempt_early(a) == a >= PAGE_RETRIES - 2

\* the last attempt of a page
page_last_attempt(a) == a = PAGE_RETRIES - 1

\* the handler of an exception forgets the entries collected
returned_on_exception_empty(g) == <<>>

\* what get_steam_games returns after an exception
returned_on_exception(g) == g

\* an empty page discards the entries collected
returned_on_empty_page_empty(g) == <<>>

\* what get_steam_games returns when a page has no items
returned_on_empty_page(g) == g

PageBodies == SeqsUpTo(Items, MaxItems) \ {<<>>}

\* the offset of the page after p is requested for page p
page_start_next(p) == (p + 1) * PAGE_SIZE

\* the 'start' parameter of the request for page p
page_start(p) == p * PAGE_SIZE

\* the sleeps at the head of the loop body of page p
page_sleeps(p) == IF p > 0 THEN <<Sleep("page", PAGE_DELAY)>> ELSE <<>>

\* the request of the current attempt of the current page, its response,
\* and the sleeps that follow
PageResponse(status, body, after) ==
    [status |-> status, body |-> body,
     start |-> page_start(page), count |-> PAGE_SIZE, after |-> after]

\* main calls get_steam_games(pages)
Start ==
    /\ pc = "Idle"
    /\ pc' = IF pages = 0 THEN "Returned" ELSE "Listing"
    /\ UNCHANGED <<pages, listerVars, games, poolVars, calcVars>>

\* a page request answered 429
PageRateLimited ==
    /\ pc = "Listing"
    /\ IF page_last_attempt(attempt)
       THEN /\ pc' = "Returned"
            /\ attempt' = attempt
            /\ response' = PageResponse("429", <<>>, <<>>)
       ELSE /\ pc' = pc
            /\ attempt' = attempt + 1
            /\ response' = PageResponse("429", <<>>,
                                        backoff_sleeps(attempt + 1))
    /\ UNCHANGED <<pages, page, only429, games, poolVars, calcVars>>

\* a page request answered with a status other than 200 and 429.  The else
\* branch of the attempt loop (lines 102-104) is never entered: the last
\* attempt of a page always returns or breaks.
PageHttpError ==
    /\ pc = "Listing"
    /\ only429' = FALSE
    /\ IF page_last_attempt(attempt)
       THEN /\ pc' = "Returned"
            /\ attempt' = attempt
            /\ response' = PageResponse("500", <<>>, <<>>)
       ELSE /\ pc' = pc
            /\ attempt' = attempt + 1
            /\ response' = PageResponse("500", <<>>,
                                        backoff_sleeps(attempt + 1))
    /\ UNCHANGED <<pages, page, games, poolVars, calcVars>>

\* a page request answered 200 with items, all of them processed
PageOk ==
    /\ pc = "Listing"
    /\ LET ok == PageResponse("200", <<>>,
                      IF page + 1 = pages THEN <<>>
                      ELSE page_sleeps(page + 1) \o backoff_sleeps(0))
       IN  \E items \in PageBodies :
              /\ response' = [ok EXCEPT !.body = items]
              /\ ~process_items(items).raised
              /\ games' = games \o process_items(items).entries
    /\ page' = page + 1
    /\ IF page + 1 = pages
       THEN /\ pc' = "Returned"
            /\ UNCHANGED <<attempt, only429>>
       ELSE /\ pc' = "Listing"
            /\ attempt' = 0
            /\ only429' = TRUE
    /\ UNCHANGED <<pages, poolVars, calcVars>>

\* a page request answered 200 with an item whose processing raises
PageItemError ==
    /\ pc = "Listing"
    /\ LET ok == PageResponse("200", <<>>, <<>>)
       IN  \E items \in PageBodies :
              /\ response' = [ok EXCEPT !.body = items]
              /\ process_items(items).raised
              /\ games' = returned_on_exception(
                              games \o process_items(items).entries)
    /\ pc' = "Returned"
    /\ UNCHANGED <<pages, page, attempt, only429, poolVars, calcVars>>

\* a page request answered 200 with no items
PageEmpty ==
    /\ pc = "Listing"
    /\ response' = PageResponse("200", <<>>, <<>>)
    /\ games' = returned_on_empty_page(games)
    /\ pc' = "Returned"
    /\ UNCHANGED <<pages, page, attempt, only429, poolVars, calcVars>>

\* a page request that raises: transport failure, or a 200 whose body
\* is not JSON
PageException ==
    /\ pc = "Listing"
    /\ \E st \in {"transport", "unparsable"} :
          response' = PageResponse(st, <<>>, <<>>)
    /\ games' = returned_on_exception(games)
    /\ pc' = "Returned"
    /\ UNCHANGED <<pages, page, attempt, only429, poolVars, calcVars>>

\* -------------------------------------------------------------------- main
\* unique_games[game['appid']] = game, for one game
RECURSIVE dict_put(_, _)
dict_put(u, game) ==
    IF u = <<>> THEN <<game>>
    ELSE IF Head(u).appid = game.appid THEN <<game>> \o Tail(u)
    ELSE <<Head(u)>> \o dict_put(Tail(u), game)

\* the deduplication keeps every occurrence
unique_values_all(g) == g

\* list(unique_games.values()) after the loop over games
RECURSIVE unique_values(_)
unique_values(g) ==
    IF g = <<>> THEN <<>>
    ELSE dict_put(unique_values(SubSeq(g, 1, Len(g) - 1)), g[Len(g)])

NewTask(app_id) ==
    [app_id |-> app_id, st |-> "queued", region |-> "ua", attempt |-> 0,
     only429 |-> TRUE, response |-> NoResponse, ua_details |-> None,
     result |-> None]

\* main deduplicates the entries and submits one task per entry
Dispatch ==
    /\ pc = "Returned"
    /\ games' = unique_values(games)
    /\ tasks' = [i \in 1..Len(games') |-> NewTask(games'[i].appid)]
    /\ pc' = "Comparing"
    /\ page' = 0
    /\ attempt' = 0
    /\ only429' = TRUE
    /\ response' = NoPage
    /\ UNCHANGED <<pages, completed, price_comparisons, finished, calcVars>>

Running == {i \in 1..Len(tasks) : tasks[i].st = "running"}

\* the executor has a thread for every task submitted
worker_idle_unbounded(running) == TRUE

\* a thread of the executor is free while the tasks in running execute
worker_idle(running) == Cardinality(running) < MAX_WORKERS

\* a worker thread takes the oldest queued task
StartTask(i) ==
    /\ pc = "Comparing"
    /\ tasks[i].st = "queued"
    /\ \A j \in 1..(i - 1) : tasks[j].st # "queued"
    /\ worker_idle(Running)
    /\ tasks' = [tasks EXCEPT ![i].st = "running"]
    /\ UNCHANGED <<pc, pages, listerVars, games, completed,
                   price_comparisons, finished, calcVars>>

\* ------------------------------------------------------ get_game_details
\* the retry loop runs one attempt short
detail_loop_continues_short(a) == a + 2 < DETAIL_RETRIES

\* the retry loop runs one attempt too long
detail_loop_continues_long(a) == a < DETAIL_RETRIES

\* the for loop has a further attempt after attempt a
detail_loop_continues(a) == a + 1 < DETAIL_RETRIES

\* an HTTP error or an exception is never followed by a retry
detail_retry_never(a) == FALSE

\* an HTTP error or an exception on attempt a is followed by a retry
detail_retry_allowed(a) == a < DETAIL_RETRIES - 1

\* the sleep after a response is made whatever the success flag says
success_delay_always(success) == <<Sleep("success", SUCCESS_DELAY)>>

\* the sleeps of get_game_details after a 200 response
success_delay(success) ==
    IF success THEN <<Sleep("success", SUCCESS_DELAY)>> ELSE <<>>

\* compare_prices goes to the second region without a delay
region_delay_missing(after) == after

\* the sleeps of the step, with the delay between the two regions
region_delay(after) == Append(after, Sleep("region", REGION_DELAY))

\* the request of the current attempt of the lookup of t, its response,
\* and the sleeps get_game_details makes before it returns
DetailResponse(t, status, body, after) ==
    [status |-> status, body |-> body, cc |-> t.region, after |-> after]

\* compare_prices goes on with the value v its lookup returned
LookupReturns(t, v, resp) ==
    IF v = None
    THEN [t EXCEPT !.st = "done", !.attempt = 0, !.only429 = TRUE,
                   !.response = resp, !.result = None]
    ELSE IF t.region = "ua"
    THEN [t EXCEPT !.region = "id", !.attempt = 0, !.only429 = TRUE,
                   !.response = [resp EXCEPT !.after =
                                    region_delay(@) \o backoff_sleeps(0)],
                   !.ua_details = v]
    ELSE [t EXCEPT !.st = "done", !.attempt = 0, !.only429 = TRUE,
                   !.response = resp,
                   !.result = price_comparison(t.ua_details, v)]

\* the lookup makes its next attempt
LookupRetries(t, resp, all429) ==
    [t EXCEPT !.attempt = t.attempt + 1,
              !.response = [resp EXCEPT !.after =
                               @ \o backoff_sleeps(t.attempt + 1)],
              !.only429 = t.only429 /\ all429]

\* the worker appends the record of its task to the list of main
TaskStep_appends(i, t) ==
    /\ tasks' = [tasks EXCEPT ![i] = t]
    /\ finished' = IF t.st = "done" THEN Append(finished, i) ELSE finished
    /\ price_comparisons' =
          IF t.st = "done" /\ t.result # None
          THEN Append(price_comparisons, t.result)
          ELSE price_comparisons
    /\ UNCHANGED <<pc, pages, listerVars, games, completed, calcVars>>

\* task i moves from tasks[i] to t
TaskStep(i, t) ==
    /\ tasks' = [tasks EXCEPT ![i] = t]
    /\ finished' = IF t.st = "done" THEN Append(finished, i) ELSE finished
    /\ UNCHANGED <<pc, pages, listerVars, games, completed,
                   price_comparisons, calcVars>>

\* a detail request answered 200 with the success flag set
DetailOk(i) ==
    /\ pc = "Comparing"
    /\ tasks[i].st = "running"
    /\ \E data \in Payloads(tasks[i].app_id, RegionFinals(tasks[i].region)) :
          TaskStep(i, LookupReturns(tasks[i], data,
                      DetailResponse(tasks[i], "200",
                          [success |-> TRUE, data |-> data],
                          success_delay(TRUE))))

\* a detail request answered 200 with an empty body
DetailNoData(i) ==
    /\ pc = "Comparing"
    /\ tasks[i].st = "running"
    /\ TaskStep(i, LookupReturns(tasks[i], None,
                      DetailResponse(tasks[i], "200", None, <<>>)))

\* a detail request answered 200 without the success flag
DetailUnsuccessful(i) ==
    /\ pc = "Comparing"
    /\ tasks[i].st = "running"
    /\ TaskStep(i, LookupReturns(tasks[i], None,
                      DetailResponse(tasks[i], "200", [success |-> FALSE],
                          success_delay(FALSE))))

\* a detail request answered 429
DetailRateLimited(i) ==
    /\ pc = "Comparing"
    /\ tasks[i].st = "running"
    /\ LET resp == DetailResponse(tasks[i], "429", None, <<>>)
       IN  IF detail_loop_continues(tasks[i].attempt)
           THEN TaskStep(i, LookupRetries(tasks[i], resp, TRUE))
           ELSE TaskStep(i, LookupReturns(tasks[i], None, resp))

\* a detail request answered with a status other than 200 and 429
DetailHttpError(i) ==
    /\ pc = "Comparing"
    /\ tasks[i].st = "running"
    /\ LET resp == DetailResponse(tasks[i], "500", None, <<>>)
       IN  IF detail_retry_allowed(tasks[i].attempt)
           THEN TaskStep(i, LookupRetries(tasks[i], resp, FALSE))
           ELSE TaskStep(i, LookupReturns(tasks[i], None, resp))

\* a detail request that raises: transport failure or a body that is not JSON
DetailException(i) ==
    /\ pc = "Comparing"
    /\ tasks[i].st = "running"
    /\ LET resp == DetailResponse(tasks[i], "exception", None, <<>>)
       IN  IF detail_retry_allowed(tasks[i].attempt)
           THEN TaskStep(i, LookupRetries(tasks[i], resp, FALSE))
           ELSE TaskStep(i, LookupReturns(tasks[i], None, resp))

\* ------------------------------------------------------- main, collection
\* main takes the result of the next future, in submission order
Collect ==
    /\ pc = "Comparing"
    /\ completed < Len(tasks)
    /\ tasks[completed + 1].st = "done"
    /\ completed' = completed + 1
    /\ price_comparisons' =
          IF tasks[completed + 1].result # None
          THEN Append(price_comparisons, tasks[completed + 1].result)
          ELSE price_comparisons
    /\ UNCHANGED <<pc, pages, listerVars, games, tasks, finished, calcVars>>

\* the with block of the executor ends
ExitPool ==
    /\ pc = "Comparing"
    /\ completed = Len(tasks)
    /\ \A i \in 1..Len(tasks) : tasks[i].st = "done"
    /\ pc' = "Aggregating"
    /\ UNCHANGED <<pages, listerVars, games, poolVars, calcVars>>

\* x placed behind the records of sorted that are not smaller
insert_desc(sorted, x) ==
    LET k == Cardinality({j \in 1..Len(sorted) :
                             RatLe(x.difference, sorted[j].difference)})
    IN  SubSeq(sorted, 1, k) \o <<x>> \o SubSeq(sorted, k + 1, Len(sorted))

\* the records left in the order of collection
sort_desc_missing(s) == s

\* sort(key=difference, reverse=True): stable, largest difference first
RECURSIVE sort_desc(_)
sort_desc(s) ==
    IF s = <<>> THEN <<>>
    ELSE insert_desc(sort_desc(SubSeq(s, 1, Len(s) - 1)), s[Len(s)])

\* main sorts the records
Sort ==
    /\ pc = "Aggregating"
    /\ price_comparisons' = sort_desc(price_comparisons)
    /\ pc' = "Done"
    /\ UNCHANGED <<pages, listerVars, games, tasks, completed, finished,
                   calcVars>>

Next ==
    \/ Start
    \/ PageRateLimited
    \/ PageHttpError
    \/ PageOk
    \/ PageItemError
    \/ PageEmpty
    \/ PageException
    \/ Dispatch
    \/ \E i \in 1..Len(tasks) : StartTask(i)
    \/ \E i \in 1..Len(tasks) : DetailOk(i)
    \/ \E i \in 1..Len(tasks) : DetailNoData(i)
    \/ \E i \in 1..Len(tasks) : DetailUnsuccessful(i)
    \/ \E i \in 1..Len(tasks) : DetailRateLimited(i)
    \/ \E i \in 1..Len(tasks) : DetailHttpError(i)
    \/ \E i \in 1..Len(tasks) : DetailException(i)
    \/ Collect
    \/ ExitPool
    \/ Sort

Spec == Init /\ [][Next]_vars

\* --------------------------------------------------- comparator on its own
NotCompared == [pending |-> TRUE]

CalcUa == (0..MaxMinor) \cup {1000}
CalcId == (0..MaxMinor) \cup {UAH_TO_IDR * k : k \in 1..MaxMinor} \cup {300000}

DetailsOf(final) == [name |-> "10", price_overview |-> [final |-> final]]

InitCalc ==
    /\ pc = "Calc"
    /\ pages = 0
    /\ page = 0
    /\ attempt = 0
    /\ only429 = TRUE
    /\ response = NoPage
    /\ games = <<>>
    /\ tasks = <<>>
    /\ completed = 0
    /\ price_comparisons = <<>>
    /\ finished = <<>>
    /\ calc_ua \in CalcUa
    /\ calc_id \in CalcId
    /\ calc_out = NotCompared

\* the comparison of compare_prices on the two payloads
Compare ==
    /\ pc = "Calc"
    /\ calc_out = NotCompared
    /\ calc_out' = price_comparison(DetailsOf(calc_ua), DetailsOf(calc_id))
    /\ UNCHANGED <<pc, pages, listerVars, games, poolVars, calc_ua, calc_id>>

NextCalc == Compare

SpecCalc == InitCalc /\ [][NextCalc]_vars

\* ------------------------------------------- comparison of three entries
\* a listing of one page: four items, three identifiers, one of them twice
PoolItems ==
    <<[name |-> "x", logo |-> "10"], [name |-> "x", logo |-> "20"],
      [name |-> "y", logo |-> "10"], [name |-> "x", logo |-> "30"]>>

\* get_steam_games(1) has returned the entries of that page
InitPool ==
    /\ pc = "Returned"
    /\ pages = 1
    /\ page = 1
    /\ attempt = 0
    /\ only429 = TRUE
    /\ response = [status |-> "200", body |-> PoolItems,
                   start |-> page_start(0), count |-> PAGE_SIZE,
                   after |-> <<>>]
    /\ games = process_items(PoolItems).entries
    /\ tasks = <<>>
    /\ completed = 0
    /\ price_comparisons = <<>>
    /\ finished = <<>>
    /\ calc_ua = 0
    /\ calc_id = 0
    /\ calc_out = None

NextPool ==
    \/ Dispatch
    \/ \E i \in 1..Len(tasks) : StartTask(i)
    \/ \E i \in 1..Len(tasks) : DetailOk(i)
    \/ \E i \in 1..Len(tasks) : DetailNoData(i)
    \/ \E i \in 1..Len(tasks) : DetailUnsuccessful(i)
    \/ \E i \in 1..Len(tasks) : DetailRateLimited(i)
    \/ \E i \in 1..Len(tasks) : DetailHttpError(i)
    \/ \E i \in 1..Len(tasks) : DetailException(i)
    \/ Collect
    \/ ExitPool
    \/ Sort

SpecPool == InitPool /\ [][NextPool]_vars

\* ------------------------------------------------ runs under fair scheduling
InitLive ==
    /\ Init
    /\ pages = LivePages

\* every step that can be taken is taken at some time: a request returns or
\* raises, a free worker thread takes the oldest queued task, main collects a
\* finished future and leaves the blocks it has completed
SpecLive == InitLive /\ [][Next]_vars /\ WF_vars(Next)

\* ================================================================= claims
IsSuccess(resp) ==
    /\ resp.status = "200"
    /\ "success" \in DOMAIN resp.body
    /\ resp.body.success

\* task i makes a request in this step
Requests(i) ==
    /\ i \in 1..Len(tasks)
    /\ tasks[i].st = "running"
    /\ tasks'[i] # tasks[i]

AppIdsOf(g) == {g[j].appid : j \in 1..Len(g)}

\* C1: the sequence get_steam_games returns holds at most one entry per
\* identifier.
C1_ListerNoDuplicates ==
    pc = "Returned" =>
        \A j, k \in 1..Len(games) : games[j].appid = games[k].appid => j = k

\* C2: while every response of a unit so far was a 429, a further 429 before
\* the last attempt leads to the next attempt of the same unit, a 200 on any
\* attempt up to the last one gives the unit its result (the payload of the
\* lookup, the entries of the page), and a 429 on the last attempt drops the
\* unit without a crash (the lookup returns None, the listing returns the
\* entries it has).
C2_RetryThenSuccess ==
    [][ /\ \A i \in 1..Len(tasks) :
              (Requests(i) /\ tasks[i].only429) =>
                 LET t == tasks[i]
                     u == tasks'[i]
                 IN  /\ (u.response.status = "429" /\ t.attempt < DETAIL_RETRIES - 1)
                           => /\ u.st = "running"
                              /\ u.region = t.region
                              /\ u.attempt = t.attempt + 1
                     /\ (u.response.status = "429" /\ t.attempt = DETAIL_RETRIES - 1)
                           => /\ u.st = "done"
                              /\ u.result = None
                              /\ pc' = pc
                     /\ IsSuccess(u.response)
                           => IF t.region = "ua"
                              THEN /\ u.st = "running"
                                   /\ u.region = "id"
                                   /\ u.ua_details = u.response.body.data
                              ELSE /\ u.st = "done"
                                   /\ u.result = price_comparison(t.ua_details,
                                                    u.response.body.data)
        /\ (pc = "Listing" /\ only429) =>
              /\ (response'.status = "429" /\ attempt < PAGE_RETRIES - 1)
                    => /\ pc' = "Listing"
                       /\ page' = page
                       /\ attempt' = attempt + 1
                       /\ games' = games
              /\ (response'.status = "429" /\ attempt = PAGE_RETRIES - 1)
                    => /\ pc' = "Returned"
                       /\ games' = games
              /\ (/\ response'.status = "200"
                  /\ response'.body # <<>>
                  /\ \A k \in 1..Len(response'.body) : response'.body[k].logo # "null")
                    => /\ pc' \in {"Listing", "Returned"}
                       /\ page' = page + 1
                       /\ games' = games \o process_items(response'.body).entries
      ]_vars

\* C2 witness: the last page got its 200 on the final allowed attempt, after
\* 429s only, and its entries are in the returned sequence.
C2_Witness ==
    /\ pc = "Returned"
    /\ response.status = "200"
    /\ response.body # <<>>
    /\ attempt = PAGE_RETRIES - 1
    /\ only429
    /\ page = pages
    /\ Len(games) > 0

PhaseRank(ph) ==
    CASE ph = "Idle" -> 0
      [] ph = "Listing" -> 1
      [] ph = "Comparing" -> 2
      [] ph = "Aggregating" -> 3
      [] ph = "Done" -> 4
      [] OTHER -> -1

FailureStatus == {"429", "500", "transport", "unparsable", "exception"}

\* C3: main moves through Idle, Listing, Comparing, Aggregating, Done one
\* stage at a time and never backwards or into a crash; a listing that ends
\* on a failure keeps exactly the entries collected so far, and these are the
\* entries compared; a failed request of one task changes no other task and
\* no collected record, and the task ends with no record at worst.
C3_StagesInOrder ==
    [][ /\ Phase' # "Crashed"
        /\ PhaseRank(Phase') \in {PhaseRank(Phase), PhaseRank(Phase) + 1}
        /\ (pc = "Listing" /\ response'.status \in FailureStatus)
              => /\ games' = games
                 /\ pc' \in {"Listing", "Returned"}
        /\ (pc = "Listing" /\ pc' = "Returned" /\ response'.status = "200")
              => games' = games \o process_items(response'.body).entries
        /\ (pc = "Returned")
              => /\ pc' = "Comparing"
                 /\ {tasks'[i].app_id : i \in 1..Len(tasks')} = AppIdsOf(games)
        /\ \A i \in 1..Len(tasks) :
              (Requests(i) /\ tasks'[i].response.status \in FailureStatus)
                 => /\ pc' = pc
                    /\ price_comparisons' = price_comparisons
                    /\ \A j \in 1..Len(tasks) : j # i => tasks'[j] = tasks[j]
                    /\ tasks'[i].st = "done" => tasks'[i].result = None
      ]_vars

\* C3 witness: a run reached Done although one task lost its entry to a
\* failed request, and the other entry was still reported.
C3_Witness ==
    /\ pc = "Done"
    /\ Len(tasks) = 2
    /\ tasks[1].response.status = "exception"
    /\ tasks[1].result = None
    /\ Len(price_comparisons) = 1

\* C4: a page answered 200 with zero items ends the listing, and the
\* sequence returned is the sequence collected from the earlier pages.
C4_EmptyPageKeepsEntries ==
    [][ (pc = "Listing" /\ response'.status = "200" /\ response'.body = <<>>)
           => /\ pc' = "Returned"
              /\ games' = games
      ]_vars

\* C4 witness: the second page was empty and the entries of the first page
\* were returned.
C4_Witness ==
    /\ pc = "Returned"
    /\ response.status = "200"
    /\ response.body = <<>>
    /\ page = 1
    /\ Len(games) > 0

\* the payload the region-B lookup of a finished task returned, None when
\* the task made no such lookup or the lookup returned None
IdDetailsOf(t) ==
    IF t.region = "id" /\ IsSuccess(t.response)
    THEN t.response.body.data
    ELSE None

\* a payload is missing or carries no price
NoQuote(details) ==
    \/ details = None
    \/ details.price_overview = None

\* C5: every collected record has a quote for both regions and is the
\* result of a finished task; a task for which the payload or the price of
\* either region is absent ends without a record, and no record of it is
\* collected.
C5_BothQuotesPresent ==
    /\ \A k \in 1..Len(price_comparisons) :
          /\ price_comparisons[k].ua_price # None
          /\ price_comparisons[k].id_price # None
          /\ \E i \in 1..Len(tasks) :
                /\ tasks[i].st = "done"
                /\ tasks[i].result = price_comparisons[k]
    /\ \A i \in 1..Len(tasks) :
          (/\ tasks[i].st = "done"
           /\ (NoQuote(tasks[i].ua_details) \/ NoQuote(IdDetailsOf(tasks[i]))))
             => /\ tasks[i].result = None
                /\ \A k \in 1..Len(price_comparisons) :
                      price_comparisons[k].name # tasks[i].app_id

\* C5 witness: the run is over, the first entry had a region-A price and a
\* region-B payload without a price and is not reported, the second is.
C5_Witness ==
    /\ pc = "Done"
    /\ Len(tasks) = 2
    /\ ~NoQuote(tasks[1].ua_details)
    /\ IdDetailsOf(tasks[1]) # None
    /\ IdDetailsOf(tasks[1]).price_overview = None
    /\ Len(price_comparisons) = 1
    /\ price_comparisons[1].name = tasks[2].app_id

\* the tasks that ended with a record
Producing ==
    {i \in 1..Len(tasks) : tasks[i].st = "done" /\ tasks[i].result # None}

\* C6: the records are sorted only when every task has completed; until
\* then they are the records of the collected tasks in submission order;
\* the reported sequence holds the record of every task that produced one,
\* once each, largest difference first and equal differences in submission
\* order, which leaves one possible sequence for given task results.
C6_ReportSortedComplete ==
    /\ pc \in {"Aggregating", "Done"} =>
          \A i \in 1..Len(tasks) : tasks[i].st = "done"
    /\ pc \in {"Comparing", "Aggregating"} =>
          price_comparisons =
             LET got == SelectSeq([i \in 1..completed |-> tasks[i]],
                                  LAMBDA t : t.result # None)
             IN  [k \in 1..Len(got) |-> got[k].result]
    /\ pc = "Done" =>
          \E perm \in [1..Len(price_comparisons) -> Producing] :
             /\ \A i \in Producing :
                   \E k \in 1..Len(price_comparisons) : perm[k] = i
             /\ \A k \in 1..Len(price_comparisons) :
                   price_comparisons[k] = tasks[perm[k]].result
             /\ \A k, l \in 1..Len(price_comparisons) :
                   k < l =>
                      /\ RatLe(price_comparisons[l].difference,
                               price_comparisons[k].difference)
                      /\ price_comparisons[l].difference =
                            price_comparisons[k].difference
                               => perm[k] < perm[l]

\* C6 witness: the second task completed before the first, both produced a
\* record, and the record of the second task is reported first because its
\* difference is larger.
C6_Witness ==
    /\ pc = "Done"
    /\ finished = <<2, 1>>
    /\ Len(price_comparisons) = 2
    /\ price_comparisons[1] = tasks[2].result
    /\ price_comparisons[1].difference # price_comparisons[2].difference

Compared == pc = "Calc" /\ calc_out # NotCompared /\ calc_out # None

\* C7: when the region-A amount or the region-B amount is zero, the record
\* has difference 0 and percentage 0.
C7_ZeroAmountGivesZero ==
    (Compared /\ (calc_ua = 0 \/ calc_id = 0)) =>
        /\ calc_out.difference = RatInt(0)
        /\ calc_out.difference_percent = RatInt(0)

\* C7 witness: a comparison of a zero region-A amount with a nonzero
\* region-B amount was made.
C7_Witness ==
    /\ pc = "Calc"
    /\ calc_out # NotCompared
    /\ calc_ua = 0
    /\ calc_id > 0

\* the amounts of the claim, from the minor units a (region A), b (region B)
ExpectedConverted(a) == Rat(a * UAH_TO_IDR, 100)
ExpectedAbsDiff(a, b) == Rat(IntAbs(b - a * UAH_TO_IDR), 100)
ExpectedLarger(a, b) ==
    IF b >= a * UAH_TO_IDR THEN b ELSE a * UAH_TO_IDR
ExpectedPct(a, b) ==
    Rat(IntAbs(b - a * UAH_TO_IDR) * 100, ExpectedLarger(a, b))

\* the record agrees with the formulas (the percentage formula says nothing
\* when both amounts are zero)
MatchesFormulas ==
    /\ calc_out # None
    /\ calc_out.ua_price_idr = ExpectedConverted(calc_ua)
    /\ calc_out.difference = ExpectedAbsDiff(calc_ua, calc_id)
    /\ \/ ExpectedLarger(calc_ua, calc_id) = 0
       \/ calc_out.difference_percent = ExpectedPct(calc_ua, calc_id)

\* C8 as stated: for all minor-unit amounts a and b the record has
\* convertedA = (a/100)*380, absDiff = |b/100 - convertedA| and
\* pctDiff = absDiff / max(convertedA, b/100) * 100.
C8_FormulasForAllAmounts ==
    (pc = "Calc" /\ calc_out # NotCompared) => MatchesFormulas

\* C8 amended: for nonzero minor-unit amounts a and b the record has
\* convertedA = (a/100)*380, absDiff = |b/100 - convertedA| and
\* pctDiff = absDiff / max(convertedA, b/100) * 100; a = 1000 and
\* b = 300000 give 3800, 800 and 800/3800*100 = 400/19.
C8_FormulasForNonzeroAmounts ==
    /\ (pc = "Calc" /\ calc_out # NotCompared /\ calc_ua # 0 /\ calc_id # 0)
          => MatchesFormulas
    /\ (pc = "Calc" /\ calc_out # NotCompared
          /\ calc_ua = 1000 /\ calc_id = 300000)
          => /\ calc_out.ua_price_idr = RatInt(3800)
             /\ calc_out.id_price.final = RatInt(3000)
             /\ calc_out.difference = RatInt(800)
             /\ calc_out.difference_percent = [num |-> 400, den |-> 19]

\* C8 witness: the amounts 1000 and 300000 were compared.
C8_Witness ==
    /\ Compared
    /\ calc_ua = 1000
    /\ calc_id = 300000

\* C9: for nonzero amounts the percentage lies between 0 and 100 and is the
\* difference taken against the larger of the two compared amounts.
C9_PercentageBounded ==
    (Compared /\ calc_ua # 0 /\ calc_id # 0) =>
        LET larger == RatMax(calc_out.ua_price_idr, calc_out.id_price.final)
        IN  /\ RatLe(RatInt(0), calc_out.difference_percent)
            /\ RatLe(calc_out.difference_percent, RatInt(100))
            /\ RatMul(calc_out.difference_percent, larger)
                  = RatMul(calc_out.difference, RatInt(100))

\* C9 witness: two nonzero amounts were compared, region B being the larger
\* one, with a percentage strictly between 0 and 100.
C9_Witness ==
    /\ Compared
    /\ calc_ua # 0
    /\ calc_id > calc_ua * UAH_TO_IDR
    /\ calc_out.difference_percent # RatInt(0)
    /\ calc_out.difference_percent # RatInt(100)

\* the comparison made in region A's currency: region B's amount converted
\* with the inverted exchange rate
ReverseComparison ==
    calculate_price_difference(
        Rat(calc_ua, 100),
        RatMul(Rat(calc_id, 100), Rat(1, UAH_TO_IDR)))

\* C10 as stated: comparing A against B and B against A (with the inverted
\* rate) gives the same absDiff and the same pctDiff.
C10_Commutative ==
    (Compared /\ calc_ua # 0 /\ calc_id # 0) =>
        /\ calc_out.difference = ReverseComparison.difference
        /\ calc_out.difference_percent = ReverseComparison.percentage

\* C10 amended: for nonzero amounts, comparing B against A with the
\* inverted rate gives the same pctDiff and an absDiff that is the absDiff
\* of A against B divided by the exchange rate; exchanging the two
\* arguments of calculate_price_difference changes neither result.
C10_CommutativeUpToRate ==
    (Compared /\ calc_ua # 0 /\ calc_id # 0) =>
        /\ calc_out.difference_percent = ReverseComparison.percentage
        /\ calc_out.difference =
              RatMul(ReverseComparison.difference, RatInt(UAH_TO_IDR))
        /\ calculate_price_difference(calc_out.ua_price_idr,
                                      calc_out.id_price.final)
              = [difference |-> calc_out.difference,
                 percentage |-> calc_out.difference_percent]

\* C10 witness: two nonzero amounts that differ after conversion were
\* compared.
C10_Witness ==
    /\ Compared
    /\ calc_ua # 0
    /\ calc_id # 0
    /\ calc_out.difference # RatInt(0)

\* task i leaves the queue in this step
Starts(i) ==
    /\ i \in 1..Len(tasks)
    /\ tasks[i].st = "queued"
    /\ tasks'[i].st = "running"

\* C11: at most 2 comparison tasks execute at any moment, and a task leaves
\* the queue only while fewer than 2 are executing; a task beyond the first
\* two leaves it only after some task has finished.
C11_AtMostTwoRunning ==
    /\ [](Cardinality({i \in 1..Len(tasks) : tasks[i].st = "running"}) <= 2)
    /\ [][ \A i \in 1..Len(tasks) :
              Starts(i) =>
                 /\ Cardinality({j \in 1..Len(tasks) :
                                    tasks[j].st = "running"}) < 2
                 /\ i > 2 => \E j \in 1..Len(tasks) : tasks[j].st = "done"
         ]_vars

\* C11 witness: of three tasks the third executes next to the second, the
\* first having finished.
C11_Witness ==
    /\ Len(tasks) = 3
    /\ tasks[1].st = "done"
    /\ tasks[2].st = "running"
    /\ tasks[3].st = "running"

\* C12: the list of completed records is changed by main only, one step at
\* a time and in no step of a worker; a step of a worker changes its own
\* task and nothing that another worker or main reads or writes.
C12_OnlyMainAppends ==
    [][ pc = "Comparing" =>
          /\ \A i \in 1..Len(tasks) :
                tasks'[i] # tasks[i] =>
                   /\ price_comparisons' = price_comparisons
                   /\ completed' = completed
                   /\ games' = games
                   /\ \A j \in 1..Len(tasks) : j # i => tasks'[j] = tasks[j]
          /\ price_comparisons' # price_comparisons =>
                /\ tasks' = tasks
                /\ completed' = completed + 1
                /\ tasks[completed'].st = "done"
                /\ price_comparisons' =
                      Append(price_comparisons, tasks[completed'].result)
      ]_vars

\* C12 witness: main has appended the record of the first task while the
\* second task is still executing.
C12_Witness ==
    /\ pc = "Comparing"
    /\ Len(tasks) = 2
    /\ completed = 1
    /\ Len(price_comparisons) = 1
    /\ tasks[2].st = "running"
    /\ tasks[2].region = "id"

\* the backoff sleeps among the sleeps s
BackoffsOf(s) == SelectSeq(s, LAMBDA x : x.for = "backoff")

\* the backoff the policy prescribes before the attempt of index n
ExpectedBackoffs(n) ==
    IF n = 0 THEN <<>>
    ELSE <<[for |-> "backoff", seconds |-> IF 2 ^ n <= 16 THEN 2 ^ n ELSE 16]>>

\* C13: a unit (a page, a lookup) about to make its attempt of index n has
\* slept no backoff since its last request when n = 0, and exactly one
\* backoff of min(2^n, 16) seconds when n >= 1; no backoff exceeds 16.
C13_BackoffSchedule ==
    /\ pc = "Listing" =>
          BackoffsOf(response.after) = ExpectedBackoffs(attempt)
    /\ \A i \in 1..Len(tasks) :
          /\ tasks[i].st = "running" =>
                BackoffsOf(tasks[i].response.after)
                   = ExpectedBackoffs(tasks[i].attempt)
          /\ \A k \in 1..Len(tasks[i].response.after) :
                tasks[i].response.after[k].for = "backoff" =>
                   tasks[i].response.after[k].seconds \in {2, 4, 8, 16}

\* C13 witness: a lookup has slept 16 seconds before its fifth attempt.
C13_Witness ==
    \E i \in 1..Len(tasks) :
       /\ tasks[i].st = "running"
       /\ tasks[i].attempt = 4
       /\ tasks[i].response.after = <<[for |-> "backoff", seconds |-> 16]>>

\* the statuses get_game_details retries
RetriedStatus == {"429", "500", "exception"}

\* C14: a lookup whose request is answered 429, answered with another
\* status than 200, or raises, makes its next attempt in the same region
\* after a backoff while it has made fewer than 5 attempts; after the fifth
\* it returns None and main goes on; a lookup never has more than 5
\* attempts, a page never more than 3.
C14_DetailFailuresAlike ==
    /\ [](/\ \A i \in 1..Len(tasks) : tasks[i].attempt < 5
          /\ pc = "Listing" => attempt < 3)
    /\ [][ \A i \in 1..Len(tasks) :
              (Requests(i) /\ tasks'[i].response.status \in RetriedStatus) =>
                 LET t == tasks[i]
                     u == tasks'[i]
                 IN  IF t.attempt < 4
                     THEN /\ u.st = "running"
                          /\ u.region = t.region
                          /\ u.attempt = t.attempt + 1
                          /\ BackoffsOf(u.response.after) # <<>>
                     ELSE /\ u.st = "done"
                          /\ u.result = None
                          /\ pc' = pc
         ]_vars

\* C14 witness: the lookup of the second region failed on a raised request
\* for the last time and the task ended without a record, main going on.
C14_Witness ==
    /\ pc = "Done"
    /\ \E i \in 1..Len(tasks) :
          /\ tasks[i].region = "id"
          /\ tasks[i].response.status = "exception"
          /\ tasks[i].result = None

\* C15: a page request that fails in transport before the last attempt of
\* its page is followed by the next attempt of the same page.
C15_ListerTransportRetried ==
    [][ (/\ pc = "Listing"
         /\ response'.status = "transport"
         /\ attempt < 3 - 1)
           => /\ pc' = "Listing"
              /\ page' = page
              /\ attempt' = attempt + 1
      ]_vars

\* C16: a lookup answered 200 with an empty body or without the success
\* flag returns None at once: the task is over with no record, main goes
\* on, and no post-success sleep is made; a lookup answered 200 with the
\* success flag sleeps 3 seconds first.
C16_UnsuccessfulIsAbsent ==
    [][ \A i \in 1..Len(tasks) :
           (Requests(i) /\ tasks'[i].response.status = "200") =>
              LET u == tasks'[i]
              IN  IF IsSuccess(u.response)
                  THEN /\ Len(u.response.after) > 0
                       /\ u.response.after[1]
                             = [for |-> "success", seconds |-> 3]
                  ELSE /\ u.st = "done"
                       /\ u.result = None
                       /\ u.region = tasks[i].region
                       /\ pc' = pc
                       /\ u.response.after = <<>>
      ]_vars

\* C16 witness: the lookup of the first region was answered 200 without the
\* success flag and the task is over with no record and no sleep.
C16_Witness ==
    \E i \in 1..Len(tasks) :
       /\ tasks[i].st = "done"
       /\ tasks[i].region = "ua"
       /\ tasks[i].response.status = "200"
       /\ tasks[i].response.body = [success |-> FALSE]
       /\ tasks[i].response.after = <<>>
       /\ tasks[i].result = None

\* the position of the last entry of g with the identifier id
LastIndexOf(g, id) ==
    CHOOSE j \in 1..Len(g) :
       /\ g[j].appid = id
       /\ \A k \in (j + 1)..Len(g) : g[k].appid # id

\* C17: from the entries the lister returned main keeps, for every
\* identifier, the last entry with it, and submits one task per identifier
\* kept; no two tasks of a run have the same identifier.
C17_OneTaskPerIdentifier ==
    /\ [](\A j, k \in 1..Len(tasks) :
             tasks[j].app_id = tasks[k].app_id => j = k)
    /\ [][ pc = "Returned" =>
              /\ Len(tasks') = Cardinality(AppIdsOf(games))
              /\ Len(games') = Len(tasks')
              /\ AppIdsOf(games') = AppIdsOf(games)
              /\ \A k \in 1..Len(games') :
                    /\ games'[k] = games[LastIndexOf(games, games'[k].appid)]
                    /\ tasks'[k].app_id = games'[k].appid
                    /\ tasks'[k].st = "queued"
         ]_vars

\* C17 witness: of four entries returned, two with identifier 10, three are
\* compared, identifier 10 under the name of its last entry.
C17_Witness ==
    /\ pc = "Comparing"
    /\ Len(tasks) = 3
    /\ games[1] = [appid |-> "10", name |-> "y"]
    /\ tasks[1].app_id = "10"
    /\ tasks[1].st = "running"

\* C18: every page request is for the current page, at offset page * 50
\* with count 50; the first page is page 0, the page stays or grows by one,
\* and grows only on a 200 with at least one item; a failure on the third
\* attempt of a page returns the entries of the earlier pages, and no page
\* is requested once the listing has returned.
C18_PagesInOrder ==
    /\ [](pc = "Listing" => page < pages)
    /\ [][ /\ pc = "Idle" => (page' = 0 /\ response' = response)
           /\ pc = "Listing" =>
                 /\ response'.start = page * 50
                 /\ response'.count = 50
                 /\ page' \in {page, page + 1}
                 /\ page' = page + 1 =>
                       (response'.status = "200" /\ response'.body # <<>>)
                 /\ (response'.status \in {"429", "500"} /\ attempt = 2) =>
                       /\ pc' = "Returned"
                       /\ page' = page
                       /\ games' = games
           /\ pc \notin {"Idle", "Listing"} =>
                 (response' = response \/ response'.status = "none")
         ]_vars

\* C18 witness: the second page was requested at offset 50 and failed for
\* the third time; the listing returned the entries of the first page.
C18_Witness ==
    /\ pc = "Returned"
    /\ page = 1
    /\ attempt = 2
    /\ response.status = "429"
    /\ response.start = 50
    /\ response.count = 50
    /\ Len(games) > 0

\* C19: a task requests region "ua" until that lookup has returned, and
\* region "id" afterwards; it turns to region "id" only on a successful "ua"
\* response followed by the 3 seconds between the regions, its next request
\* is then for "id"; a "ua" lookup that returns None ends the task with no
\* record and no request for "id".
C19_RegionsInSequence ==
    /\ [](\A i \in 1..Len(tasks) :
             /\ tasks[i].region = "id" => tasks[i].ua_details # None
             /\ tasks[i].response.cc = "id" => tasks[i].region = "id"
             /\ tasks[i].result # None => tasks[i].response.cc = "id")
    /\ [][ \A i \in 1..Len(tasks) :
              Requests(i) =>
                 LET t == tasks[i]
                     u == tasks'[i]
                 IN  /\ u.response.cc = t.region
                     /\ (t.region = "ua" /\ u.region = "id") =>
                           /\ IsSuccess(u.response)
                           /\ u.st = "running"
                           /\ \E k \in 1..Len(u.response.after) :
                                 u.response.after[k]
                                    = [for |-> "region", seconds |-> 3]
                     /\ (t.region = "ua" /\ u.st = "done") =>
                           /\ u.region = "ua"
                           /\ u.result = None
                     /\ t.region = "id" => u.region = "id"
         ]_vars

\* C19 witness: a task made its request for region "id" after the "ua"
\* lookup succeeded, and gave a record.
C19_Witness ==
    \E i \in 1..Len(tasks) :
       /\ tasks[i].st = "done"
       /\ tasks[i].ua_details # None
       /\ tasks[i].response.cc = "id"
       /\ tasks[i].result # None

\* the requests the current call of get_steam_games can still make
PageRequestsLeft ==
    CASE pc = "Idle" -> 3 * pages
      [] pc = "Listing" -> 3 * (pages - page) - attempt
      [] OTHER -> 0

\* the requests the task t can still make: 5 per region at most
LookupRequestsLeft(t) ==
    CASE t.st = "queued" -> 10
      [] t.st = "running" -> (IF t.region = "ua" THEN 10 ELSE 5) - t.attempt
      [] OTHER -> 0

RECURSIVE DetailRequestsLeft(_)
DetailRequestsLeft(ts) ==
    IF ts = <<>> THEN 0
    ELSE LookupRequestsLeft(Head(ts)) + DetailRequestsLeft(Tail(ts))

\* C20: under fair scheduling every run reaches Done.  A page about to be
\* requested has had fewer than 3 requests and a lookup fewer than 5; every
\* request uses up at least one of the requests its unit has left, of 3 per
\* page of the run and of 10 per task submitted, so that a run makes at most
\* 3 * pages + 10 * N requests.
C20_TerminatesWithinBudget ==
    /\ <>(pc = "Done")
    /\ [](/\ pc = "Listing" => (attempt < 3 /\ PageRequestsLeft >= 1)
          /\ PageRequestsLeft <= 3 * pages
          /\ DetailRequestsLeft(tasks) <= 10 * Len(tasks)
          /\ \A i \in 1..Len(tasks) :
                tasks[i].st = "running" =>
                   /\ tasks[i].attempt < 5
                   /\ LookupRequestsLeft(tasks[i]) >= 1)
    /\ [][ /\ pc = "Listing" => PageRequestsLeft' <= PageRequestsLeft - 1
           /\ \A i \in 1..Len(tasks) :
                 Requests(i) =>
                    /\ LookupRequestsLeft(tasks'[i])
                          <= LookupRequestsLeft(tasks[i]) - 1
                    /\ DetailRequestsLeft(tasks')
                          <= DetailRequestsLeft(tasks) - 1
           /\ pc = "Comparing" =>
                 DetailRequestsLeft(tasks') <= DetailRequestsLeft(tasks)
         ]_vars

\* C20 witness: a run reached Done although both tasks failed to the end in
\* their second region, one on a 429 and one on another status.
C20_Witness ==
    /\ pc = "Done"
    /\ Len(tasks) = 2
    /\ tasks[1].region = "id"
    /\ tasks[1].response.status = "429"
    /\ tasks[2].region = "id"
    /\ tasks[2].response.status = "500"
    /\ price_comparisons = <<>>

====
